---- MODULE Spec2Model ----
(***************************************************************************)
(* rust-esplora-client: the retrying request loops (get_with_retry of the  *)
(* blocking and async clients, exec_with_retry of SyncRetryable and        *)
(* AsyncRetryable), the single-shot transports (POST, the Tor client, the  *)
(* api.rs Client handlers) and the decode helpers that turn the final      *)
(* response into a typed result.                                           *)
(*                                                                         *)
(* Durations and instants are in milliseconds.  A logical call is a record *)
(* of calls[c]; its pc is the position of the calling thread or task:      *)
(*   "idle"   not started                                                  *)
(*   "send"   at the head of the loop, a transport attempt is next         *)
(*   "sleep"  suspended in the backoff sleep                               *)
(*   "decode" the loop returned a final response to the decode helper      *)
(*   "done"   the call returned (or panicked): outcome holds the result    *)
(***************************************************************************)
EXTENDS Integers, Sequences, FiniteSets, TLC

VARIABLES cfg, calls, clock

vars == <<cfg, calls, clock>>

(***************************************************************************)
(* Bounds of the model.                                                    *)
(***************************************************************************)
\* Builder::max_retries ranges over 0..MaxRetries
MaxRetries == 2
\* cap on the iterations of a loop that neither retry nor return
MaxSpins == 2
\* number of clock ticks the wall clock may advance
MaxTicks == 1

(***************************************************************************)
(* Program constants.                                                      *)
(***************************************************************************)
SECOND == 1000
BASE_BACKOFF_MS == 5000
EXEC_DEFAULT_MAX_RETRIES == 5
BASE_BACKOFF_MILLIS == 256
RETRY_TOO_MANY_REQUEST_ONLY == <<429, 503>>
RETRYABLE_ERROR_CODES == <<429, 500, 503>>
\* width of the u16 a minreq i32 status is cast to
U16_MODULUS == 65536
\* the model's word for u64 (TLC integers are 32 bits wide): 2^30
U64_MODULUS == 1073741824
\* the instant the wall clock starts at, and one tick of it
T0 == 10500
TickMs == 1000

Contains(seq, x) == \E i \in 1..Len(seq) : seq[i] = x

(***************************************************************************)
(* Responses.  A body is <<encoding, data>>: "raw" bytes, ASCII "hex" of   *)
(* bytes, a "json" document or plain "text"; data "obj" is the consensus   *)
(* encoding (or JSON form) of the value the endpoint serves, "id" is a     *)
(* 32-byte hash, "7" is a decimal number, "junk" is anything else.         *)
(***************************************************************************)
NoHeader == [present |-> FALSE, value |-> <<>>]
SomeHeader(s) == [present |-> TRUE, value |-> s]

\* "@" followed by digits stands for the IMF-fixdate text of that epoch second
RetryAfterValues ==
    { NoHeader,
      SomeHeader(<<"3">>),
      SomeHeader(<<"3", "!">>),
      SomeHeader(<<"@", "9">>),
      SomeHeader(<<"@", "1", "1">>),
      SomeHeader(<<"1", "0", "7", "3", "7", "4", "2">>) }

Bodies ==
    { <<"raw", "obj">>, <<"raw", "junk">>,
      <<"hex", "obj">>, <<"hex", "id">>,
      <<"json", "obj">>, <<"json", "[]">>, <<"json", "[obj]">>,
      <<"text", "junk">>, <<"text", "7">> }

\* status codes a server can put on the wire that minreq parses into an i32
MinreqStatuses == {200, 201, 404, 429, 500, 503, 65965}
\* reqwest, hyper and ureq keep a status in 100..999
HttpStatuses == {200, 201, 404, 429, 500, 503}

NoResp == [status |-> 0, retry_after |-> NoHeader, body |-> <<"text", "junk">>]

Response(status, h, body) == [status |-> status, retry_after |-> h, body |-> body]

ResponsesWith(statuses, bodies) ==
    { Response(s, h, b) : s \in statuses, h \in RetryAfterValues, b \in bodies }

ResponsesOf(statuses) == ResponsesWith(statuses, Bodies)

\* A retried response is dropped after its Retry-After header was looked at and
\* no helper reads the headers of a final response: the unread part of a
\* response takes one value.
RetriedOf(responses) == { r \in responses : r.body = <<"text", "junk">> }

FinalOf(responses) == { r \in responses : r.retry_after = NoHeader }

\* reqwest hands the response over before the body arrived: the body stream may
\* then fail ("cut")
ReqwestResponses == ResponsesWith(HttpStatuses, Bodies \cup {<<"cut", "junk">>})

\* the retry loops of retryable.rs never look at the body
ExecResponses == ResponsesWith({200, 404, 429, 500, 503}, {<<"text", "junk">>})

(***************************************************************************)
(* retryable.rs: compute_backoff.                                          *)
(***************************************************************************)
DigitChars == <<"0", "1", "2", "3", "4", "5", "6", "7", "8", "9">>

IsDigit(ch) == Contains(DigitChars, ch)

DigitVal(ch) == (CHOOSE i \in 1..Len(DigitChars) : DigitChars[i] = ch) - 1

\* the digits of s as a u64, or -1 when a character is no digit or the value
\* does not fit the word
RECURSIVE ParseDigits(_, _)
ParseDigits(s, acc) ==
    IF s = <<>> THEN acc
    ELSE IF ~IsDigit(Head(s)) THEN -1
    ELSE IF acc > ((U64_MODULUS - 1) - DigitVal(Head(s))) \div 10 THEN -1
    ELSE ParseDigits(Tail(s), acc * 10 + DigitVal(Head(s)))

\* str::parse::<u64>: an optional "+", then at least one digit
ParseU64(s) ==
    LET t == IF s # <<>> /\ Head(s) = "+" THEN Tail(s) ELSE s
    IN  IF t = <<>> THEN -1 ELSE ParseDigits(t, 0)

\* str::parse::<httpdate::HttpDate>, as the instant in milliseconds, or -1
ParseHttpDate(s) ==
    IF s # <<>> /\ Head(s) = "@" /\ Tail(s) # <<>> /\ ParseDigits(Tail(s), 0) >= 0
    THEN ParseDigits(Tail(s), 0) * SECOND
    ELSE -1

\* a * b in u64 when overflow checks are off: the product wraps
MulU64(a, b) == (a * b) % U64_MODULUS

\* a * b does not fit u64: with overflow checks on the multiplication panics
MulOverflows(a, b) == a * b >= U64_MODULUS

\* `seconds * SECOND` of compute_backoff overflows on this Retry-After header
BackoffOverflows(retry_after) ==
    /\ retry_after.present
    /\ ParseHttpDate(retry_after.value) < 0
    /\ ParseU64(retry_after.value) >= 0
    /\ MulOverflows(ParseU64(retry_after.value), SECOND)

\* the closure without the test of the date against the current time
RetryAfterDurationUnchecked(value, now1, now2) ==
    IF ParseHttpDate(value) >= 0
    THEN IF ParseHttpDate(value) >= now2 THEN ParseHttpDate(value) - now2 ELSE -1
    ELSE IF ParseU64(value) >= 0 THEN MulU64(ParseU64(value), SECOND)
    ELSE -1

\* the closure of compute_backoff: Some(duration) as the duration, None as -1.
\* now1 and now2 are the two reads of now(), in program order.
RetryAfterDuration(value, now1, now2) ==
    IF ParseHttpDate(value) >= 0
    THEN IF ParseHttpDate(value) <= now1 THEN 0
         ELSE IF ParseHttpDate(value) >= now2 THEN ParseHttpDate(value) - now2
         ELSE -1
    ELSE IF ParseU64(value) >= 0 THEN MulU64(ParseU64(value), SECOND)
    ELSE -1

\* compute_backoff with the previous delay as its fallback
compute_backoff_keeping(retry_after, backoff, now1, now2) ==
    LET duration == IF retry_after.present
                    THEN RetryAfterDuration(retry_after.value, now1, now2)
                    ELSE -1
    IN  IF duration >= 0 THEN duration ELSE backoff

compute_backoff(retry_after, backoff, now1, now2) ==
    LET duration == IF retry_after.present
                    THEN RetryAfterDuration(retry_after.value, now1, now2)
                    ELSE -1
    IN  IF duration >= 0 THEN duration ELSE backoff * 2

(***************************************************************************)
(* Results of a call.                                                      *)
(***************************************************************************)
Result(kind, variant, status, payload) ==
    [kind |-> kind, variant |-> variant, status |-> status, payload |-> payload]

Pending == Result("Pending", "", 0, <<>>)
Ok(v) == Result("Ok", "", 0, v)
OkResponse(resp) == Result("Ok", "Response", resp.status, resp.body)
SomeOf(v) == Result("Some", "", 0, v)
NoneResult == Result("None", "", 0, <<>>)
Err(variant) == Result("Err", variant, 0, <<>>)
ErrStatus(variant, status) == Result("Err", variant, status, <<>>)
HttpResponse(status, message) == Result("Err", "HttpResponse", status, message)
Panic == Result("Panic", "", 0, <<>>)

IsOk(r) == r.kind = "Ok"
IsErr(r) == r.kind = "Err"

\* Result<T, E> -> Result<Option<T>, E>
MapSome(r) == IF IsOk(r) THEN SomeOf(r.payload) ELSE r

(***************************************************************************)
(* The codecs the decode helpers call.                                     *)
(***************************************************************************)
\* str::from_utf8 of the body: raw consensus bytes are no UTF-8 text
IsUtf8(body) == body[1] \in {"hex", "json", "text"}

\* whether reqwest could read the body to its end
BodyReceived(body) == body[1] # "cut"

\* String::from_utf8_lossy, the text reqwest's text() gives
LossyText(body) == IF IsUtf8(body) THEN body ELSE <<"lossy", body[2]>>

\* Vec::<u8>::from_hex of a text
FromHex(text) == IF text[1] = "hex" THEN Ok(<<"raw", text[2]>>) ELSE Err("HexToBytes")

\* bitcoin::consensus::deserialize::<T> of bytes
deserialize(bytes) ==
    IF bytes = <<"raw", "obj">> THEN Ok(<<"value", "obj">>) ELSE Err("BitcoinEncoding")

\* serde_json::from_slice::<T> of bytes; errvariant is the Error the caller maps to
from_json(bytes, errvariant) ==
    IF bytes = <<"json", "obj">> THEN Ok(<<"value", "obj">>) ELSE Err(errvariant)

\* serde_json::from_slice::<Vec<T>> of bytes: an array, empty or not
from_json_vec(bytes, errvariant) ==
    IF bytes = <<"json", "[]">> THEN Ok(<<"list", "empty">>)
    ELSE IF bytes = <<"json", "[obj]">> THEN Ok(<<"list", "obj">>)
    ELSE Err(errvariant)

\* Vec::is_empty
is_empty(list) == list = <<"list", "empty">>

\* the txid a caller asks get_tx and get_tx_no_opt for
RequestedTxid == <<"txid", "asked">>

\* Error::TransactionNotFound(txid)
TransactionNotFound(txid) == Result("Err", "TransactionNotFound", 0, txid)

\* the match of get_tx_no_opt with every error turned into TransactionNotFound
get_tx_no_opt_masking(got, txid) ==
    IF got.kind = "Some" THEN Ok(got.payload) ELSE TransactionNotFound(txid)

\* the match of get_tx_no_opt on the result of get_tx, the same in both clients
get_tx_no_opt(got, txid) ==
    IF got.kind = "Some" THEN Ok(got.payload)
    ELSE IF got.kind = "None" THEN TransactionNotFound(txid)
    ELSE got

\* Txid::from_str of a text
TxidFromStr(text) ==
    IF text = <<"hex", "id">> THEN Ok(<<"txid", "id">>) ELSE Err("HexToArray")

\* u32::from_str of a text
U32FromStr(text) ==
    IF text = <<"text", "7">> THEN Ok(<<"u32", "7">>) ELSE Err("Parsing")

\* BlockHash::from_str of a text
BlockHashFromStr(text) ==
    IF text = <<"hex", "id">> THEN Ok(<<"blockhash", "id">>) ELSE Err("HexToArray")

(***************************************************************************)
(* blocking.rs: status predicates and decode helpers of BlockingClient.    *)
(***************************************************************************)
is_status_ok(status) == status = 200

is_status_not_found(status) == status = 404

\* the i32 status is cast to u16 before the lookup
is_status_retryable(status) == Contains(RETRYABLE_ERROR_CODES, status % U16_MODULUS)

\* Response::as_str of minreq: Err on a body that is no UTF-8
MinreqAsStr(resp) == IF IsUtf8(resp.body) THEN Ok(resp.body) ELSE Err("Minreq")

\* the arm `Ok(resp) if !is_status_ok(resp.status_code)` of every helper
BlockingHttpError(resp) ==
    IF resp.status \notin 0..(U16_MODULUS - 1) THEN Err("StatusCode")
    ELSE HttpResponse(resp.status,
                      IF IsOk(MinreqAsStr(resp)) THEN MinreqAsStr(resp).payload ELSE <<>>)

\* hex_str = resp.as_str().map_err(Error::Minreq)?;
\* hex_vec = Vec::from_hex(hex_str).unwrap(); deserialize(&hex_vec)
BlockingHexBody(resp) ==
    IF ~IsOk(MinreqAsStr(resp)) THEN Err("Minreq")
    ELSE IF ~IsOk(FromHex(resp.body)) THEN Panic
    ELSE deserialize(FromHex(resp.body).payload)

blocking_get_opt_response(resp) ==
    IF is_status_not_found(resp.status) THEN NoneResult
    ELSE IF ~is_status_ok(resp.status) THEN BlockingHttpError(resp)
    ELSE MapSome(deserialize(resp.body))

blocking_get_opt_response_txid(resp) ==
    IF is_status_not_found(resp.status) THEN NoneResult
    ELSE IF ~is_status_ok(resp.status) THEN BlockingHttpError(resp)
    ELSE IF ~IsOk(MinreqAsStr(resp)) THEN Err("Minreq")
    ELSE MapSome(TxidFromStr(resp.body))

blocking_get_opt_response_hex(resp) ==
    IF is_status_not_found(resp.status) THEN NoneResult
    ELSE IF ~is_status_ok(resp.status) THEN BlockingHttpError(resp)
    ELSE MapSome(BlockingHexBody(resp))

blocking_get_response_hex(resp) ==
    IF ~is_status_ok(resp.status) THEN BlockingHttpError(resp)
    ELSE BlockingHexBody(resp)

blocking_get_response_json(resp) ==
    IF ~is_status_ok(resp.status) THEN BlockingHttpError(resp)
    ELSE from_json(resp.body, "Minreq")

blocking_get_opt_response_json(resp) ==
    IF is_status_not_found(resp.status) THEN NoneResult
    ELSE IF ~is_status_ok(resp.status) THEN BlockingHttpError(resp)
    ELSE MapSome(from_json(resp.body, "Minreq"))

blocking_get_response_str(resp) ==
    IF ~is_status_ok(resp.status) THEN BlockingHttpError(resp)
    ELSE MinreqAsStr(resp)

\* the match of BlockingClient::broadcast on a received response
blocking_broadcast(resp) ==
    IF ~is_status_ok(resp.status) THEN BlockingHttpError(resp)
    ELSE TxidFromStr(IF IsOk(MinreqAsStr(resp)) THEN resp.body ELSE <<"text", "">>)

\* get_response_str(..).map(|s| u32::from_str(s.as_str()).map_err(Error::Parsing))?
blocking_get_height(resp) ==
    LET s == blocking_get_response_str(resp)
    IN  IF IsOk(s) THEN U32FromStr(s.payload) ELSE s

blocking_get_tip_hash(resp) ==
    LET s == blocking_get_response_str(resp)
    IN  IF IsOk(s) THEN BlockHashFromStr(s.payload) ELSE s

blocking_get_block_hash(resp) ==
    LET s == blocking_get_response_str(resp)
    IN  IF IsOk(s) THEN BlockHashFromStr(s.payload) ELSE s

\* BlockingClient::get_tx
blocking_get_tx(resp) == blocking_get_opt_response(resp)

blocking_get_tx_no_opt(resp) == get_tx_no_opt(blocking_get_tx(resp), RequestedTxid)

\* BlockingClient::get_blocks: get_response_json(&path)?, then the empty check
blocking_get_blocks(resp) ==
    LET blocks == IF ~is_status_ok(resp.status) THEN BlockingHttpError(resp)
                  ELSE from_json_vec(resp.body, "Minreq")
    IN  IF ~IsOk(blocks) THEN blocks
        ELSE IF is_empty(blocks.payload) THEN Err("InvalidResponse")
        ELSE blocks

\* the endpoints of BlockingClient modelled beside the helpers they call
BlockingEndpoints == { "get_tx_no_opt", "get_blocks" }

BlockingGetHelpers ==
    { "get_opt_response", "get_opt_response_txid", "get_opt_response_hex",
      "get_response_hex", "get_response_json", "get_opt_response_json",
      "get_response_str", "get_height", "get_tip_hash", "get_block_hash" }

BlockingDecode(helper, resp) ==
    CASE helper = "get_opt_response" -> blocking_get_opt_response(resp)
      [] helper = "get_opt_response_txid" -> blocking_get_opt_response_txid(resp)
      [] helper = "get_opt_response_hex" -> blocking_get_opt_response_hex(resp)
      [] helper = "get_response_hex" -> blocking_get_response_hex(resp)
      [] helper = "get_response_json" -> blocking_get_response_json(resp)
      [] helper = "get_opt_response_json" -> blocking_get_opt_response_json(resp)
      [] helper = "get_response_str" -> blocking_get_response_str(resp)
      [] helper = "get_height" -> blocking_get_height(resp)
      [] helper = "get_tip_hash" -> blocking_get_tip_hash(resp)
      [] helper = "get_block_hash" -> blocking_get_block_hash(resp)
      [] helper = "broadcast" -> blocking_broadcast(resp)
      [] helper = "get_tx_no_opt" -> blocking_get_tx_no_opt(resp)
      [] helper = "get_blocks" -> blocking_get_blocks(resp)

(***************************************************************************)
(* async.rs: decode helpers of AsyncClient.                                *)
(***************************************************************************)
\* reqwest::StatusCode::is_success
is_success(status) == status \in 200..299

async_is_status_retryable(status) == Contains(RETRYABLE_ERROR_CODES, status)

\* `if !response.status().is_success() { return Err(HttpResponse {..}) }`:
\* response.text().await? fails with the transport's error on a cut body
AsyncHttpError(resp) ==
    IF ~BodyReceived(resp.body) THEN Err("Reqwest")
    ELSE HttpResponse(resp.status, LossyText(resp.body))

async_get_response(resp) ==
    IF ~is_success(resp.status) THEN AsyncHttpError(resp)
    ELSE IF ~BodyReceived(resp.body) THEN Err("Reqwest")
    ELSE deserialize(resp.body)

async_get_response_json(resp) ==
    IF ~is_success(resp.status) THEN AsyncHttpError(resp)
    ELSE IF ~BodyReceived(resp.body) THEN Err("Reqwest")
    ELSE from_json(resp.body, "Reqwest")

async_get_response_hex(resp) ==
    IF ~is_success(resp.status) THEN AsyncHttpError(resp)
    ELSE IF ~BodyReceived(resp.body) THEN Err("Reqwest")
    ELSE IF ~IsOk(FromHex(LossyText(resp.body))) THEN FromHex(LossyText(resp.body))
    ELSE deserialize(FromHex(LossyText(resp.body)).payload)

async_get_response_text(resp) ==
    IF ~is_success(resp.status) THEN AsyncHttpError(resp)
    ELSE IF ~BodyReceived(resp.body) THEN Err("Reqwest")
    ELSE Ok(LossyText(resp.body))

\* the match with its second arm widened to every HttpResponse error
AsyncOptAnyStatus(r) ==
    IF IsOk(r) THEN SomeOf(r.payload)
    ELSE IF r.kind = "Err" /\ r.variant = "HttpResponse" THEN NoneResult
    ELSE r

\* the match shared by get_opt_response, _json, _hex and _text
AsyncOpt(r) ==
    IF IsOk(r) THEN SomeOf(r.payload)
    ELSE IF r.kind = "Err" /\ r.variant = "HttpResponse" /\ r.status = 404 THEN NoneResult
    ELSE r

async_post_request_hex(resp) ==
    IF ~is_success(resp.status) THEN AsyncHttpError(resp)
    ELSE Ok(<<"unit", "">>)

\* AsyncClient::get_txid_at_block_index: get_opt_response_text(..).await?, then
\* Txid::from_str(&s).map_err(Error::HexToArray)? on Some(s)
async_get_txid_at_block_index(resp) ==
    LET text == AsyncOpt(async_get_response_text(resp))
    IN  IF text.kind = "Some" THEN MapSome(TxidFromStr(text.payload)) ELSE text

\* get_response_text(..).await.map(|height| u32::from_str(&height).map_err(Error::Parsing))?
async_get_height(resp) ==
    LET s == async_get_response_text(resp)
    IN  IF IsOk(s) THEN U32FromStr(s.payload) ELSE s

async_get_tip_hash(resp) ==
    LET s == async_get_response_text(resp)
    IN  IF IsOk(s) THEN BlockHashFromStr(s.payload) ELSE s

async_get_block_hash(resp) ==
    LET s == async_get_response_text(resp)
    IN  IF IsOk(s) THEN BlockHashFromStr(s.payload) ELSE s

\* AsyncClient::get_tx
async_get_tx(resp) == AsyncOpt(async_get_response(resp))

async_get_tx_no_opt(resp) == get_tx_no_opt(async_get_tx(resp), RequestedTxid)

\* AsyncClient::get_blocks: self.get_response_json(&path).await
async_get_blocks(resp) ==
    IF ~is_success(resp.status) THEN AsyncHttpError(resp)
    ELSE IF ~BodyReceived(resp.body) THEN Err("Reqwest")
    ELSE from_json_vec(resp.body, "Reqwest")

\* the endpoints of AsyncClient modelled beside the helpers they call
AsyncEndpoints == { "get_tx_no_opt", "get_blocks" }

AsyncGetHelpers ==
    { "get_response", "get_opt_response", "get_response_json",
      "get_opt_response_json", "get_response_hex", "get_opt_response_hex",
      "get_response_text", "get_opt_response_text", "get_txid_at_block_index",
      "get_height", "get_tip_hash", "get_block_hash" }

AsyncDecode(helper, resp) ==
    CASE helper = "get_response" -> async_get_response(resp)
      [] helper = "get_opt_response" -> AsyncOpt(async_get_response(resp))
      [] helper = "get_response_json" -> async_get_response_json(resp)
      [] helper = "get_opt_response_json" -> AsyncOpt(async_get_response_json(resp))
      [] helper = "get_response_hex" -> async_get_response_hex(resp)
      [] helper = "get_opt_response_hex" -> AsyncOpt(async_get_response_hex(resp))
      [] helper = "get_response_text" -> async_get_response_text(resp)
      [] helper = "get_opt_response_text" -> AsyncOpt(async_get_response_text(resp))
      [] helper = "get_txid_at_block_index" -> async_get_txid_at_block_index(resp)
      [] helper = "get_height" -> async_get_height(resp)
      [] helper = "get_tip_hash" -> async_get_tip_hash(resp)
      [] helper = "get_block_hash" -> async_get_block_hash(resp)
      [] helper = "post_request_hex" -> async_post_request_hex(resp)
      [] helper = "get_tx_no_opt" -> async_get_tx_no_opt(resp)
      [] helper = "get_blocks" -> async_get_blocks(resp)

(***************************************************************************)
(* async_tor.rs: the helpers of AsyncTorClient.  got is the result of      *)
(* self.get(&url): a response, or Err("Transport").                        *)
(***************************************************************************)
\* str::from_utf8(response.body()).unwrap().to_string()
TorHttpError(resp) ==
    IF IsUtf8(resp.body) THEN HttpResponse(resp.status, resp.body) ELSE Panic

tor_get_response(transport_ok, resp) ==
    IF ~transport_ok THEN Panic
    ELSE IF is_success(resp.status)
         THEN IF IsOk(deserialize(resp.body)) THEN deserialize(resp.body) ELSE Panic
         ELSE TorHttpError(resp)

tor_get_response_hex(transport_ok, resp) ==
    IF ~transport_ok THEN Err("Transport")
    ELSE IF is_success(resp.status)
         THEN IF ~IsUtf8(resp.body) THEN Panic
              ELSE IF ~IsOk(FromHex(resp.body)) THEN FromHex(resp.body)
              ELSE deserialize(FromHex(resp.body).payload)
         ELSE TorHttpError(resp)

TorHelpers == { "get_response", "get_opt_response", "get_response_hex" }

TorDecode(helper, transport_ok, resp) ==
    CASE helper = "get_response" -> tor_get_response(transport_ok, resp)
      [] helper = "get_opt_response" -> AsyncOpt(tor_get_response(transport_ok, resp))
      [] helper = "get_response_hex" -> tor_get_response_hex(transport_ok, resp)

(***************************************************************************)
(* api.rs: Response and the Client implementations.                        *)
(***************************************************************************)
api_is_status_ok(resp) == resp.status = 200

\* Response::as_str
ApiAsStr(resp) == IF IsUtf8(resp.body) THEN Ok(resp.body) ELSE Err("InvalidUtf8InBody")

\* the `if !response.is_status_ok()` block every deserialize_* starts with
ApiHttpError(resp) ==
    IF resp.status \notin 0..(U16_MODULUS - 1) THEN Err("StatusCode")
    ELSE IF ~IsOk(ApiAsStr(resp)) THEN ApiAsStr(resp)
    ELSE HttpResponse(resp.status, resp.body)

\* TransactionApi::deserialize_decodable; hex is the TxMerkeBlockProof variant
api_deserialize_decodable(hex, resp) ==
    IF ~api_is_status_ok(resp) THEN ApiHttpError(resp)
    ELSE IF hex
         THEN IF ~IsOk(ApiAsStr(resp)) THEN ApiAsStr(resp)
              ELSE IF ~IsOk(FromHex(resp.body)) THEN FromHex(resp.body)
              ELSE deserialize(FromHex(resp.body).payload)
         ELSE deserialize(resp.body)

api_deserialize_json(resp) ==
    IF ~api_is_status_ok(resp) THEN ApiHttpError(resp)
    ELSE from_json(resp.body, "SerdeJsonError")

\* the scalar a BlocksApi variant's text response parses to: T::from_str
BlocksFromStr(variant, text) ==
    CASE variant = "BlockTipHeight" -> U32FromStr(text)
      [] variant = "BlockTxIdAtIndex" -> TxidFromStr(text)
      [] OTHER -> BlockHashFromStr(text)

\* BlocksApi::deserialize_str on BlockTxIdAtIndex, BlockTipHash, BlockHash and
\* BlockTipHeight: Ok(T::from_str(response.as_str()?).unwrap())
api_blocks_deserialize_str(variant, resp) ==
    IF ~api_is_status_ok(resp) THEN ApiHttpError(resp)
    ELSE IF ~IsOk(ApiAsStr(resp)) THEN ApiAsStr(resp)
    ELSE IF IsOk(BlocksFromStr(variant, resp.body)) THEN BlocksFromStr(variant, resp.body)
    ELSE Panic

ApiHelpers == { "Tx.deserialize_decodable", "TxMerkeBlockProof.deserialize_decodable",
                "TxInfo.deserialize_json",
                "BlockTipHeight.deserialize_str", "BlockTipHash.deserialize_str",
                "BlockHash.deserialize_str", "BlockTxIdAtIndex.deserialize_str" }

ApiDecode(helper, resp) ==
    CASE helper = "Tx.deserialize_decodable" -> api_deserialize_decodable(FALSE, resp)
      [] helper = "TxMerkeBlockProof.deserialize_decodable" ->
            api_deserialize_decodable(TRUE, resp)
      [] helper = "TxInfo.deserialize_json" -> api_deserialize_json(resp)
      [] helper = "BlockTipHeight.deserialize_str" ->
            api_blocks_deserialize_str("BlockTipHeight", resp)
      [] helper = "BlockTipHash.deserialize_str" ->
            api_blocks_deserialize_str("BlockTipHash", resp)
      [] helper = "BlockHash.deserialize_str" ->
            api_blocks_deserialize_str("BlockHash", resp)
      [] helper = "BlockTxIdAtIndex.deserialize_str" ->
            api_blocks_deserialize_str("BlockTxIdAtIndex", resp)

(***************************************************************************)
(* The state: the client's configuration and the logical calls.            *)
(***************************************************************************)
CallIds == {1}

\* the retryable sets a caller may want a client to use: a narrow one and the
\* broad one
RetryPolicies == { <<429>>, RETRYABLE_ERROR_CODES }

Clients == {"blocking", "async", "tor", "api", "sync_exec", "async_exec"}

IdleCall ==
    [ client |-> "none", helper |-> "none", pc |-> "idle",
      max_retries |-> 0, codes |-> <<>>, policy |-> <<>>,
      attempts |-> 0, delay |-> 0, sends |-> 0,
      nsleeps |-> 0, last_sleep |-> 0, prev_delay |-> 0, reads |-> <<0, 0>>,
      failed |-> FALSE, all_retryable |-> TRUE, no_retry_after |-> TRUE,
      req_headers |-> {}, resp |-> NoResp, outcome |-> Pending ]

\* the header maps of a Builder: none, or one header set with header(key, value)
HeaderMaps == { {}, {<<"Authorization", "Basic">>} }

\* the Builders a client is built from: Builder::new(url), then proxy(..),
\* header(..) and max_retries(..)
Builders ==
    { [ base_url |-> "http://esplora", proxy |-> p, timeout |-> "none",
        headers |-> h, max_retries |-> m ] :
      p \in {"none", "bad"}, h \in HeaderMaps, m \in 0..MaxRetries }

\* cfg before a client is built
NoClient ==
    [ built |-> FALSE, base_url |-> "", proxy |-> "none", timeout |-> "none",
      headers |-> {}, max_retries |-> 0 ]

\* BlockingClient::from_builder, AsyncClient::from_builder: the fields are copied
from_builder(builder) ==
    [ built |-> TRUE, base_url |-> builder.base_url, proxy |-> builder.proxy,
      timeout |-> builder.timeout, headers |-> builder.headers,
      max_retries |-> builder.max_retries ]

Init ==
    /\ cfg = NoClient
    /\ calls = [c \in CallIds |-> IdleCall]
    /\ clock = T0

BuildClient ==
    /\ ~cfg.built
    /\ \A c \in CallIds : calls[c].pc = "idle"
    /\ \E builder \in Builders : cfg' = from_builder(builder)
    /\ UNCHANGED <<calls, clock>>

Set(c, rec) == calls' = [calls EXCEPT ![c] = rec]

\* str::to_lowercase on a header name
to_lowercase(name) == IF name = "Authorization" THEN "authorization" ELSE name

\* BlockingClient::get_request: with_header for every configured header
get_request_headers(config) == config.headers

\* BlockingClient::post_request: proxy and timeout only
post_request_headers(config) == {}

\* AsyncClient::from_builder: default_headers of the reqwest client, which go
\* out with every request; the names are lowercased
AsyncRequestHeaders(config) ==
    { <<to_lowercase(h[1]), h[2]>> : h \in config.headers }

\* the request of this attempt is built with these headers
SentWith(call, headers) == [call EXCEPT !.req_headers = headers]

Finish(call, result) == [call EXCEPT !.pc = "done", !.outcome = result]

\* the transport answered the attempt with resp.  all_retryable records whether
\* every answer so far had a status of the call's retryable set, no_retry_after
\* whether every answer so far came without a Retry-After header.
Received(call, resp) ==
    [call EXCEPT !.sends = @ + 1, !.resp = resp,
                 !.all_retryable = @ /\ Contains(call.codes, resp.status),
                 !.no_retry_after = @ /\ ~resp.retry_after.present]

\* the attempt failed at connection level: no response
TransportFailed(call) == [call EXCEPT !.sends = @ + 1, !.failed = TRUE]

(***************************************************************************)
(* BlockingClient: get_with_retry and the helper that called it.           *)
(***************************************************************************)
\* the guard of the retrying arm of BlockingClient::get_with_retry
BlockingShouldRetry(attempts, max_retries, status) ==
    attempts < max_retries /\ is_status_retryable(status)

\* a get_with_retry that takes up the backoff state another call left behind
BlockingStartShared(c) ==
    /\ calls[c].pc = "idle"
    /\ cfg.built
    /\ \E h \in BlockingGetHelpers \cup BlockingEndpoints, p \in RetryPolicies,
          d \in DOMAIN calls :
          Set(c, [IdleCall EXCEPT !.client = "blocking", !.helper = h, !.pc = "send",
                                  !.codes = RETRYABLE_ERROR_CODES, !.policy = p,
                                  !.max_retries = cfg.max_retries,
                                  !.attempts = calls[d].attempts,
                                  !.delay = IF calls[d].delay > 0 THEN calls[d].delay
                                            ELSE BASE_BACKOFF_MILLIS])
    /\ UNCHANGED <<cfg, clock>>

\* a helper calls get_with_retry.  policy is the retryable set the caller
\* wants: neither Builder nor BlockingClient has a field for it, and the loop
\* reads RETRYABLE_ERROR_CODES.
BlockingStart(c) ==
    /\ calls[c].pc = "idle"
    /\ cfg.built
    /\ \E h \in BlockingGetHelpers \cup BlockingEndpoints, p \in RetryPolicies :
          Set(c, [IdleCall EXCEPT !.client = "blocking", !.helper = h, !.pc = "send",
                                  !.codes = RETRYABLE_ERROR_CODES, !.policy = p,
                                  !.max_retries = cfg.max_retries,
                                  !.delay = BASE_BACKOFF_MILLIS])
    /\ UNCHANGED <<cfg, clock>>

\* one iteration of the loop: self.get_request(url)?.send()? and the match
BlockingGetAttempt(c) ==
    LET call == calls[c]
        sent == SentWith(calls[c], get_request_headers(cfg))
    IN
    /\ call.client = "blocking"
    /\ call.helper \in BlockingGetHelpers \cup BlockingEndpoints
    /\ call.pc = "send"
    /\ \/ /\ cfg.proxy = "bad"
          /\ Set(c, Finish(call, Err("Minreq")))
       \/ /\ cfg.proxy # "bad"
          /\ Set(c, Finish(TransportFailed(sent), Err("Minreq")))
       \/ /\ cfg.proxy # "bad"
          /\ \/ \E resp \in RetriedOf(ResponsesOf(MinreqStatuses)) :
                   /\ BlockingShouldRetry(call.attempts, call.max_retries, resp.status)
                   /\ Set(c, [Received(sent, resp) EXCEPT
                                  !.pc = "sleep", !.nsleeps = @ + 1,
                                  !.last_sleep = call.delay,
                                  !.prev_delay = call.delay])
             \/ \E resp \in FinalOf(ResponsesOf(MinreqStatuses)) :
                   /\ ~BlockingShouldRetry(call.attempts, call.max_retries, resp.status)
                   /\ Set(c, [Received(sent, resp) EXCEPT !.pc = "decode"])
    /\ UNCHANGED <<cfg, clock>>

\* a wake that takes the retry out of the client's max_retries
BlockingWakeSpending(c) ==
    LET call == calls[c] IN
    /\ call.client = "blocking" /\ call.pc = "sleep"
    /\ Set(c, [call EXCEPT !.pc = "send", !.attempts = @ + 1, !.delay = @ * 2,
                            !.resp = NoResp])
    /\ cfg' = [cfg EXCEPT !.max_retries = @ - 1]
    /\ UNCHANGED clock

\* thread::sleep(delay) returns; attempts += 1; delay *= 2; resp is dropped
BlockingWake(c) ==
    LET call == calls[c] IN
    /\ call.client = "blocking" /\ call.pc = "sleep"
    /\ Set(c, [call EXCEPT !.pc = "send", !.attempts = @ + 1, !.delay = @ * 2,
                            !.resp = NoResp])
    /\ UNCHANGED <<cfg, clock>>

\* a decode that reports the retried status once the call has retried
BlockingDecodeStepStale(c) ==
    LET call == calls[c] IN
    /\ call.client = "blocking" /\ call.pc = "decode"
    /\ Set(c, Finish(call, IF call.nsleeps > 0
                           THEN HttpResponse(429, <<"text", "junk">>)
                           ELSE BlockingDecode(call.helper, call.resp)))
    /\ UNCHANGED <<cfg, clock>>

BlockingDecodeStep(c) ==
    LET call == calls[c] IN
    /\ call.client = "blocking" /\ call.pc = "decode"
    /\ Set(c, Finish(call, BlockingDecode(call.helper, call.resp)))
    /\ UNCHANGED <<cfg, clock>>

\* BlockingClient::broadcast: post_request(..)?, request.send() and the match
BlockingBroadcast(c) ==
    /\ calls[c].pc = "idle"
    /\ cfg.built
    /\ LET call == [IdleCall EXCEPT !.client = "blocking", !.helper = "broadcast",
                                    !.max_retries = cfg.max_retries]
           sent == SentWith(call, post_request_headers(cfg))
       IN
       \/ /\ cfg.proxy = "bad"
          /\ Set(c, Finish(call, Err("Minreq")))
       \/ /\ cfg.proxy # "bad"
          /\ Set(c, Finish(TransportFailed(sent), Err("Minreq")))
       \/ /\ cfg.proxy # "bad"
          /\ \E resp \in FinalOf(ResponsesOf(MinreqStatuses)) :
                Set(c, Finish(Received(sent, resp),
                              BlockingDecode("broadcast", resp)))
    /\ UNCHANGED <<cfg, clock>>

(***************************************************************************)
(* AsyncClient: get_with_retry and the helper that called it.              *)
(***************************************************************************)
\* the guard of the retrying arm of AsyncClient::get_with_retry
AsyncShouldRetry(attempts, max_retries, status) ==
    attempts < max_retries /\ async_is_status_retryable(status)

\* AsyncClient::from_builder fails on a proxy reqwest rejects: no client, no call
AsyncStart(c) ==
    /\ calls[c].pc = "idle"
    /\ cfg.built /\ cfg.proxy # "bad"
    /\ \E h \in AsyncGetHelpers \cup AsyncEndpoints \cup {"post_request_hex"},
          p \in RetryPolicies :
          Set(c, [IdleCall EXCEPT !.client = "async", !.helper = h, !.pc = "send",
                                  !.codes = RETRYABLE_ERROR_CODES, !.policy = p,
                                  !.max_retries = cfg.max_retries,
                                  !.delay = BASE_BACKOFF_MILLIS])
    /\ UNCHANGED <<cfg, clock>>

\* one iteration of the loop: self.client.get(url).send().await? and the match
AsyncGetAttempt(c) ==
    LET call == calls[c]
        sent == SentWith(calls[c], AsyncRequestHeaders(cfg))
    IN
    /\ call.client = "async"
    /\ call.helper \in AsyncGetHelpers \cup AsyncEndpoints
    /\ call.pc = "send"
    /\ \/ Set(c, Finish(TransportFailed(sent), Err("Reqwest")))
       \/ \E resp \in RetriedOf(ReqwestResponses) :
             /\ AsyncShouldRetry(call.attempts, call.max_retries, resp.status)
             /\ Set(c, [Received(sent, resp) EXCEPT
                            !.pc = "sleep", !.nsleeps = @ + 1,
                            !.last_sleep = call.delay,
                            !.prev_delay = call.delay])
       \/ \E resp \in FinalOf(ReqwestResponses) :
             /\ ~AsyncShouldRetry(call.attempts, call.max_retries, resp.status)
             /\ Set(c, [Received(sent, resp) EXCEPT !.pc = "decode"])
    /\ UNCHANGED <<cfg, clock>>

\* a sleep that outlives the future that awaited it
AsyncWakeDetached(c) ==
    LET call == calls[c] IN
    /\ call.client = "async" /\ call.pc \in {"sleep", "cancelled"}
    /\ Set(c, [call EXCEPT !.pc = "send", !.attempts = @ + 1, !.delay = @ * 2,
                            !.resp = NoResp])
    /\ UNCHANGED <<cfg, clock>>

\* S::sleep(delay).await returns; attempts += 1; delay *= 2; resp is dropped
AsyncWake(c) ==
    LET call == calls[c] IN
    /\ call.client = "async" /\ call.pc = "sleep"
    /\ Set(c, [call EXCEPT !.pc = "send", !.attempts = @ + 1, !.delay = @ * 2,
                            !.resp = NoResp])
    /\ UNCHANGED <<cfg, clock>>

\* a post_request_hex that goes through the retries of get_with_retry
AsyncPostAttemptRetrying(c) ==
    LET call == calls[c]
        sent == SentWith(calls[c], AsyncRequestHeaders(cfg))
    IN
    /\ call.client = "async" /\ call.helper = "post_request_hex"
    /\ call.pc = "send"
    /\ \/ Set(c, Finish(TransportFailed(sent), Err("Reqwest")))
       \/ \E resp \in RetriedOf(ReqwestResponses) :
             /\ AsyncShouldRetry(call.attempts, call.max_retries, resp.status)
             /\ Set(c, [Received(sent, resp) EXCEPT
                            !.pc = "sleep", !.nsleeps = @ + 1,
                            !.last_sleep = call.delay,
                            !.prev_delay = call.delay])
       \/ \E resp \in FinalOf(ReqwestResponses) :
             /\ ~AsyncShouldRetry(call.attempts, call.max_retries, resp.status)
             /\ Set(c, [Received(sent, resp) EXCEPT !.pc = "decode"])
    /\ UNCHANGED <<cfg, clock>>

\* post_request_hex: self.client.post(url).body(body).send().await?
AsyncPostAttempt(c) ==
    LET call == calls[c]
        sent == SentWith(calls[c], AsyncRequestHeaders(cfg))
    IN
    /\ call.client = "async" /\ call.helper = "post_request_hex"
    /\ call.pc = "send"
    /\ \/ Set(c, Finish(TransportFailed(sent), Err("Reqwest")))
       \/ \E resp \in FinalOf(ReqwestResponses) :
             Set(c, [Received(sent, resp) EXCEPT !.pc = "decode"])
    /\ UNCHANGED <<cfg, clock>>

AsyncDecodeStep(c) ==
    LET call == calls[c] IN
    /\ call.client = "async" /\ call.pc = "decode"
    /\ Set(c, Finish(call, AsyncDecode(call.helper, call.resp)))
    /\ UNCHANGED <<cfg, clock>>

(***************************************************************************)
(* AsyncTorClient: one self.get(&url) and the helper's match.              *)
(***************************************************************************)
TorStart(c) ==
    /\ calls[c].pc = "idle"
    /\ ~cfg.built
    /\ \E h \in TorHelpers :
          Set(c, [IdleCall EXCEPT !.client = "tor", !.helper = h, !.pc = "send"])
    /\ UNCHANGED <<cfg, clock>>

TorGet(c) ==
    LET call == calls[c] IN
    /\ call.client = "tor" /\ call.pc = "send"
    /\ \/ Set(c, Finish(TransportFailed(call),
                        TorDecode(call.helper, FALSE, NoResp)))
       \/ \E resp \in FinalOf(ResponsesOf(HttpStatuses)) :
             Set(c, Finish(Received(call, resp),
                           TorDecode(call.helper, TRUE, resp)))
    /\ UNCHANGED <<cfg, clock>>

(***************************************************************************)
(* api.rs: Client::send through the caller's handler, then deserialize_*.  *)
(***************************************************************************)
ApiStart(c) ==
    /\ calls[c].pc = "idle"
    /\ ~cfg.built
    /\ \E h \in ApiHelpers :
          Set(c, [IdleCall EXCEPT !.client = "api", !.helper = h, !.pc = "send"])
    /\ UNCHANGED <<cfg, clock>>

\* handler(request).map_err(Error::Client)
ApiSend(c) ==
    LET call == calls[c] IN
    /\ call.client = "api" /\ call.pc = "send"
    /\ \/ Set(c, Finish(TransportFailed(call), Err("Client")))
       \/ \E resp \in FinalOf(ResponsesOf(MinreqStatuses)) :
             Set(c, [Received(call, resp) EXCEPT !.pc = "decode"])
    /\ UNCHANGED <<cfg, clock>>

ApiDecodeStep(c) ==
    LET call == calls[c] IN
    /\ call.client = "api" /\ call.pc = "decode"
    /\ Set(c, Finish(call, ApiDecode(call.helper, call.resp)))
    /\ UNCHANGED <<cfg, clock>>

(***************************************************************************)
(* retryable.rs: exec_with_retry of SyncRetryable (ureq) and of            *)
(* AsyncRetryable (reqwest).                                               *)
(***************************************************************************)
\* the instants a read of now() can return once t has been read
NowAfter(t) == { t + k * TickMs : k \in 0..MaxTicks } \cap (0..(T0 + MaxTicks * TickMs))

\* max_retries: Option<u32>, None as -1
EffectiveMaxRetries(max_retries) ==
    IF max_retries = -1 THEN EXEC_DEFAULT_MAX_RETRIES ELSE max_retries

ExecShouldRetry(codes, status, retry_count, max_retries) ==
    Contains(codes, status) /\ retry_count < max_retries

\* ureq's call() returns Err(Error::Status(code, resp)) for a status of 400 or more
UreqIsStatusError(status) == status >= 400

\* reqwest's Response::error_for_status
error_for_status(resp) ==
    IF resp.status \in 400..599 THEN ErrStatus("Reqwest", resp.status)
    ELSE OkResponse(resp)

\* backoff = compute_backoff(header, backoff); retry_count += 1; sleep(backoff)
ExecRetry(call, resp, now1, now2) ==
    [Received(call, resp) EXCEPT !.pc = "sleep",
                 !.delay = compute_backoff(resp.retry_after, call.delay, now1, now2),
                 !.attempts = @ + 1, !.nsleeps = @ + 1,
                 !.last_sleep = compute_backoff(resp.retry_after, call.delay, now1, now2),
                 !.prev_delay = call.delay, !.reads = <<now1, now2>>]

\* compute_backoff reads now() only for a header that parses as an HTTP-date
ReadsClock(resp) ==
    resp.retry_after.present /\ ParseHttpDate(resp.retry_after.value) >= 0

ExecStart(c) ==
    /\ calls[c].pc = "idle"
    /\ ~cfg.built
    /\ \E k \in {"sync_exec", "async_exec"},
          codes \in {RETRY_TOO_MANY_REQUEST_ONLY, RETRYABLE_ERROR_CODES},
          m \in {-1} \cup (0..MaxRetries) :
          Set(c, [IdleCall EXCEPT !.client = k, !.helper = "exec_with_retry",
                                  !.pc = "send", !.codes = codes, !.policy = codes,
                                  !.max_retries = EffectiveMaxRetries(m),
                                  !.delay = BASE_BACKOFF_MS])
    /\ UNCHANGED <<cfg, clock>>

\* one iteration of the loop of SyncRetryable::exec_with_retry.  Whether an
\* overflowing `seconds * SECOND` panics or wraps depends on the build
\* (overflow checks on or off): both outcomes are steps.
SyncExecAttempt(c) ==
    LET call == calls[c] IN
    /\ call.client = "sync_exec" /\ call.pc = "send"
    /\ call.sends - call.attempts < MaxSpins
    /\ \/ /\ Set(c, Finish(TransportFailed(call), Err("Transport")))
          /\ UNCHANGED clock
       \/ \E resp \in FinalOf(ExecResponses) :
             /\ ~UreqIsStatusError(resp.status)
             /\ Set(c, Finish(Received(call, resp),
                              OkResponse(resp)))
             /\ UNCHANGED clock
       \/ \E resp \in ExecResponses :
             /\ UreqIsStatusError(resp.status)
             /\ ExecShouldRetry(call.codes, resp.status, call.attempts, call.max_retries)
             /\ BackoffOverflows(resp.retry_after)
             /\ Set(c, Finish(Received(call, resp), Panic))
             /\ UNCHANGED clock
       \/ \E resp \in ExecResponses :
             /\ UreqIsStatusError(resp.status)
             /\ ExecShouldRetry(call.codes, resp.status, call.attempts, call.max_retries)
             /\ \E now1 \in (IF ReadsClock(resp) THEN NowAfter(clock) ELSE {clock}) :
                   \E now2 \in (IF ReadsClock(resp) THEN NowAfter(now1) ELSE {clock}) :
                      /\ Set(c, ExecRetry(call, resp, now1, now2))
                      /\ clock' = now2
       \/ \E resp \in FinalOf(ExecResponses) :
             /\ UreqIsStatusError(resp.status)
             /\ ~ExecShouldRetry(call.codes, resp.status, call.attempts, call.max_retries)
             /\ Set(c, Received(call, resp))
             /\ UNCHANGED clock
    /\ UNCHANGED cfg

\* one iteration of the loop of AsyncRetryable::exec_with_retry
AsyncExecAttempt(c) ==
    LET call == calls[c] IN
    /\ call.client = "async_exec" /\ call.pc = "send"
    /\ \/ /\ Set(c, Finish(TransportFailed(call), Err("Reqwest")))
          /\ UNCHANGED clock
       \/ \E resp \in ExecResponses :
             /\ ExecShouldRetry(call.codes, resp.status, call.attempts, call.max_retries)
             /\ BackoffOverflows(resp.retry_after)
             /\ Set(c, Finish(Received(call, resp), Panic))
             /\ UNCHANGED clock
       \/ \E resp \in ExecResponses :
             /\ ExecShouldRetry(call.codes, resp.status, call.attempts, call.max_retries)
             /\ \E now1 \in (IF ReadsClock(resp) THEN NowAfter(clock) ELSE {clock}) :
                   \E now2 \in (IF ReadsClock(resp) THEN NowAfter(now1) ELSE {clock}) :
                      /\ Set(c, ExecRetry(call, resp, now1, now2))
                      /\ clock' = now2
       \/ \E resp \in FinalOf(ExecResponses) :
             /\ ~ExecShouldRetry(call.codes, resp.status, call.attempts, call.max_retries)
             /\ Set(c, Finish(Received(call, resp),
                              error_for_status(resp)))
             /\ UNCHANGED clock
    /\ UNCHANGED cfg

\* the sleep of either exec_with_retry returns: back to the head of the loop
ExecWake(c) ==
    LET call == calls[c] IN
    /\ call.client \in {"sync_exec", "async_exec"} /\ call.pc = "sleep"
    /\ Set(c, [call EXCEPT !.pc = "send", !.resp = NoResp])
    /\ UNCHANGED <<cfg, clock>>

\* the caller drops the future of an async call (its task is cancelled) while
\* it is suspended at an .await: at send().await, with the request not yet out
\* or in flight, at the sleep, or at the body read of the helper.  A dropped
\* future is not polled again.
AsyncCancel(c) ==
    LET call == calls[c] IN
    /\ call.client \in {"async", "async_exec"}
    /\ call.pc \in {"send", "sleep", "decode"}
    /\ \/ Set(c, [call EXCEPT !.pc = "cancelled"])
       \/ /\ call.pc = "send"
          /\ Set(c, [call EXCEPT !.pc = "cancelled", !.sends = @ + 1,
                                  !.req_headers =
                                      IF call.client = "async"
                                      THEN AsyncRequestHeaders(cfg)
                                      ELSE call.req_headers])
    /\ UNCHANGED <<cfg, clock>>

Next ==
    \/ BuildClient
    \/ \E c \in CallIds :
           \/ BlockingStart(c) \/ BlockingGetAttempt(c) \/ BlockingWake(c)
           \/ BlockingDecodeStep(c) \/ BlockingBroadcast(c)
           \/ AsyncStart(c) \/ AsyncGetAttempt(c) \/ AsyncWake(c)
           \/ AsyncPostAttempt(c) \/ AsyncDecodeStep(c)
           \/ TorStart(c) \/ TorGet(c)
           \/ ApiStart(c) \/ ApiSend(c) \/ ApiDecodeStep(c)
           \/ ExecStart(c) \/ SyncExecAttempt(c) \/ AsyncExecAttempt(c) \/ ExecWake(c)
           \/ AsyncCancel(c)

Spec == Init /\ [][Next]_vars

(***************************************************************************)
(* Two logical calls on one client: two threads on a BlockingClient, two   *)
(* futures on an AsyncClient.  Each call runs the same actions on its own  *)
(* slot; the calls are taken on one helper, one policy and a few answers.  *)
(***************************************************************************)
TwoCalls == {1, 2}

\* the client the two calls share
TwoBuilder ==
    [ base_url |-> "http://esplora", proxy |-> "none", timeout |-> "none",
      headers |-> {}, max_retries |-> MaxRetries ]

\* the answers the two calls are given: 200 with a height or with a text that
\* is none, or a retryable status
TwoResponses ==
    { NoResp, Response(200, NoHeader, <<"text", "7">>),
      Response(200, NoHeader, <<"text", "junk">>),
      Response(429, NoHeader, <<"text", "junk">>),
      Response(500, NoHeader, <<"text", "junk">>) }

InitTwo ==
    /\ cfg = from_builder(TwoBuilder)
    /\ calls = [c \in TwoCalls |-> IdleCall]
    /\ clock = T0

\* the step stays within the calls taken
Taken(c) ==
    /\ calls'[c].helper = "get_height"
    /\ calls'[c].policy = RETRYABLE_ERROR_CODES
    /\ calls'[c].resp \in TwoResponses

\* the helper has returned (or its future was dropped): the locals of
\* get_with_retry are gone, and the thread or task may make another call
Release(c) ==
    /\ calls[c].pc \in {"done", "cancelled"}
    /\ Set(c, IdleCall)
    /\ UNCHANGED <<cfg, clock>>

NextTwo ==
    \E c \in TwoCalls :
        \/ BlockingStart(c) /\ Taken(c)
        \/ BlockingGetAttempt(c) /\ Taken(c)
        \/ BlockingWake(c)
        \/ BlockingDecodeStep(c)
        \/ AsyncStart(c) /\ Taken(c)
        \/ AsyncGetAttempt(c) /\ Taken(c)
        \/ AsyncWake(c)
        \/ AsyncDecodeStep(c)
        \/ AsyncCancel(c)
        \/ Release(c)

SpecTwo == InitTwo /\ [][NextTwo]_vars

(***************************************************************************)
(* lib.rs: convert_fee_rate, a function of its two arguments.              *)
(***************************************************************************)
\* the largest confirmation target passed to convert_fee_rate
MaxTarget == 4

\* the confirmation targets (u16) an estimates map may have as keys
FeeKeys == {1, 2, 3}

\* f64 estimates, in units of the last f64 digit kept here
FeeValues == {5, 6, 9}

\* the f64 values an f32 cannot tell apart: f32 keeps fewer mantissa bits
F32_STEP == 4

\* `v as f32`: rounds to the nearest f32, ties to the even mantissa
AsF32(v) ==
    LET q == v \div F32_STEP
        r == v % F32_STEP
        up == IF 2 * r > F32_STEP THEN TRUE
              ELSE IF 2 * r < F32_STEP THEN FALSE
              ELSE q % 2 = 1
    IN  <<"f32", (IF up THEN q + 1 ELSE q) * F32_STEP>>

\* the maps from some of the keys to estimates
EstimateMaps ==
    UNION { [keys -> FeeValues] : keys \in SUBSET FeeKeys }

\* convert_fee_rate with `<` for `<=` in the filter
convert_fee_rate_below(target, estimates) ==
    LET kept == { k \in DOMAIN estimates : k < target } IN
    IF kept = {} THEN NoneResult
    ELSE SomeOf(AsF32(estimates[CHOOSE k \in kept : \A j \in kept : j <= k]))

\* filter(k as usize <= target), max_by_key(k), map(v as f32)
convert_fee_rate(target, estimates) ==
    LET kept == { k \in DOMAIN estimates : k <= target } IN
    IF kept = {} THEN NoneResult
    ELSE SomeOf(AsF32(estimates[CHOOSE k \in kept : \A j \in kept : j <= k]))

\* a call of convert_fee_rate about to be made
FeeCall(target, estimates) ==
    [ client |-> "lib", helper |-> "convert_fee_rate", pc |-> "call",
      target |-> target, estimates |-> estimates, outcome |-> Pending ]

InitFee ==
    /\ cfg = NoClient
    /\ clock = T0
    /\ \E target \in 0..MaxTarget, estimates \in EstimateMaps :
          calls = [c \in CallIds |-> FeeCall(target, estimates)]

ConvertFeeRate(c) ==
    /\ calls[c].helper = "convert_fee_rate" /\ calls[c].pc = "call"
    /\ Set(c, Finish(calls[c], convert_fee_rate(calls[c].target, calls[c].estimates)))
    /\ UNCHANGED <<cfg, clock>>

NextFee == \E c \in CallIds : ConvertFeeRate(c)

SpecFee == InitFee /\ [][NextFee]_vars

(***************************************************************************)
(* Properties.                                                             *)
(***************************************************************************)
\* a logical GET call made through get_with_retry of either client
IsGetWithRetryCall(call) ==
    \/ /\ call.client = "blocking"
       /\ call.helper \in BlockingGetHelpers \cup BlockingEndpoints
    \/ /\ call.client = "async"
       /\ call.helper \in AsyncGetHelpers \cup AsyncEndpoints

\* a call that runs one of the four retry loops
IsRetryLoopCall(call) ==
    IsGetWithRetryCall(call) \/ call.client \in {"sync_exec", "async_exec"}

\* the loop handed its final response to the caller
Returned(call) == call.pc \in {"decode", "done"}

\* get_with_retry alone: never more than max_retries + 1 transport attempts
GetWithRetryAttemptsBounded ==
    \A c \in CallIds :
        IsGetWithRetryCall(calls[c]) => calls[c].sends <= calls[c].max_retries + 1

\* C1: a GET call through get_with_retry of the blocking or the async client
\* makes at most max_retries + 1 transport attempts and ends with exactly one
\* terminal outcome: a decoded value, an absent result or an error.
C1_AttemptsBoundedOneTerminalOutcome ==
    \A c \in CallIds :
        IsGetWithRetryCall(calls[c]) =>
            /\ calls[c].sends <= calls[c].max_retries + 1
            /\ (calls[c].pc = "done") <=> (calls[c].outcome # Pending)
            /\ calls[c].pc = "done" =>
                   calls[c].outcome.kind \in {"Ok", "Some", "None", "Err"}

\* C2: when every answer of the transport carries a retryable status, a retry
\* loop with budget n makes exactly n + 1 attempts and then returns the final
\* response: never more than n + 1 attempts, at n + 1 answered attempts the
\* loop has returned, and it returns no earlier.
C2_ExhaustedBudgetReturnsFinalResponse ==
    \A c \in CallIds :
        LET call == calls[c] IN
        (IsRetryLoopCall(call) /\ call.all_retryable /\ ~call.failed) =>
            /\ call.sends <= call.max_retries + 1
            /\ (call.sends = call.max_retries + 1 /\ call.resp # NoResp) =>
                   /\ Returned(call)
                   /\ call.pc = "done" /\ call.helper = "exec_with_retry" =>
                          call.outcome.status = call.resp.status
            /\ (Returned(call) /\ call.sends > 0) =>
                   call.sends = call.max_retries + 1

\* C3: an answer whose status is not in the retryable set is returned at once:
\* after a first answer of that kind the loop has returned, without a sleep.
C3_NonRetryableReturnedAtOnce ==
    \A c \in CallIds :
        LET call == calls[c] IN
        (/\ IsRetryLoopCall(call)
         /\ call.sends = 1 /\ call.resp # NoResp
         /\ ~Contains(call.codes, call.resp.status)) =>
            Returned(call) /\ call.nsleeps = 0

\* C4: a transport attempt that fails at connection level ends the call at
\* once with an error value: the call is over, so that no sleep and no
\* further attempt follows, and it returned an error instead of panicking.
C4_TransportFailureIsAnErrorValue ==
    \A c \in CallIds :
        calls[c].failed =>
            /\ calls[c].pc = "done"
            /\ calls[c].outcome.kind = "Err"

\* the two reads of now() a sleeping call's delay was computed from
ClockReads(call) ==
    IF call.client \in {"sync_exec", "async_exec"} THEN call.reads
    ELSE <<clock, clock>>

\* C5: in every retry loop, the delay slept after a retried response that
\* carries a Retry-After header is compute_backoff of that header value and
\* the previous delay.
C5_SleepHonoursRetryAfter ==
    \A c \in CallIds :
        LET call == calls[c] IN
        (/\ IsRetryLoopCall(call)
         /\ call.pc = "sleep"
         /\ call.resp.retry_after.present) =>
            call.last_sleep = compute_backoff(call.resp.retry_after, call.prev_delay,
                                              ClockReads(call)[1], ClockReads(call)[2])

\* a call of a decode helper of the blocking client, the async client or api.rs
IsDecodeCall(call) ==
    \/ call.client = "blocking" /\ call.helper \in BlockingGetHelpers \cup {"broadcast"}
    \/ call.client = "async" /\ call.helper \in AsyncGetHelpers \cup {"post_request_hex"}
    \/ call.client = "api"

\* the call is over and its helper saw a final response, body included
FinalReceived(call) ==
    /\ call.pc = "done" /\ ~call.failed
    /\ call.resp # NoResp /\ BodyReceived(call.resp.body)

\* the helper took its non-success path: absent result or status error
TreatedAsFailure(outcome) ==
    \/ outcome.kind = "None"
    \/ outcome.kind = "Err" /\ outcome.variant \in {"HttpResponse", "StatusCode"}

\* C6: every decode helper treats a final response as a success if and only
\* if its status code is exactly 200.
C6_SuccessIffStatus200 ==
    \A c \in CallIds :
        LET call == calls[c] IN
        (IsDecodeCall(call) /\ FinalReceived(call) /\ IsUtf8(call.resp.body)) =>
            ((call.resp.status = 200) <=> ~TreatedAsFailure(call.outcome))

\* the optional-lookup helpers
IsOptCall(call) ==
    \/ /\ call.client = "blocking"
       /\ call.helper \in {"get_opt_response", "get_opt_response_txid",
                           "get_opt_response_hex", "get_opt_response_json"}
    \/ /\ call.client = "async"
       /\ call.helper \in {"get_opt_response", "get_opt_response_json",
                           "get_opt_response_hex", "get_opt_response_text",
                           "get_txid_at_block_index"}

\* C7: a final response with a non-success status, other than a 404 on an
\* optional-lookup helper, is returned by the GET helpers and by broadcast as
\* HttpResponse carrying exactly that status and the body as its message.
C7_NonSuccessIsHttpResponse ==
    \A c \in CallIds :
        LET call == calls[c] IN
        (/\ call.client \in {"blocking", "async"}
         /\ IsDecodeCall(call) /\ FinalReceived(call) /\ IsUtf8(call.resp.body)
         /\ call.resp.status # 200 /\ call.resp.status < U16_MODULUS
         /\ ~(IsOptCall(call) /\ call.resp.status = 404)) =>
            call.outcome = HttpResponse(call.resp.status, call.resp.body)

\* the decoding a helper applies to the body of a successful response
DecodeMode(call) ==
    CASE call.helper \in {"get_response", "get_opt_response",
                          "Tx.deserialize_decodable"} -> "binary"
      [] call.helper \in {"get_response_hex", "get_opt_response_hex",
                          "TxMerkeBlockProof.deserialize_decodable"} -> "hex"
      [] call.helper \in {"get_response_json", "get_opt_response_json",
                          "TxInfo.deserialize_json"} -> "json"
      [] call.helper \in {"get_opt_response_txid", "get_txid_at_block_index",
                          "broadcast"} -> "txid"
      [] OTHER -> "text"

\* the value a body stands for under a decoding mode, or the decoding error
Decoded(mode, body) ==
    CASE mode = "binary" -> deserialize(body)
      [] mode = "hex" -> IF IsUtf8(body) /\ IsOk(FromHex(body))
                         THEN deserialize(FromHex(body).payload)
                         ELSE Err("HexToBytes")
      [] mode = "json" -> from_json(body, "SerdeJsonError")
      [] mode = "txid" -> TxidFromStr(body)
      [] OTHER -> Ok(LossyText(body))

\* C8: on every optional-lookup helper a final 404 yields None, a successful
\* decode of value v yields Some(v), and nothing else becomes None or Some: a
\* final 500 yields the error HttpResponse with status 500, never None.
C8_OptionalLookupOutcomes ==
    \A c \in CallIds :
        LET call == calls[c]
            value == Decoded(DecodeMode(call), call.resp.body)
        IN  (IsOptCall(call) /\ FinalReceived(call)) =>
                /\ call.resp.status = 404 => call.outcome = NoneResult
                /\ call.outcome.kind = "None" => call.resp.status = 404
                /\ (call.resp.status = 200 /\ IsOk(value)) =>
                       call.outcome = SomeOf(value.payload)
                /\ call.outcome.kind = "Some" =>
                       IsOk(value) /\ call.outcome.payload = value.payload
                /\ call.resp.status = 500 =>
                       /\ call.outcome.kind = "Err"
                       /\ call.outcome.variant = "HttpResponse"
                       /\ call.outcome.status = 500

\* an optional lookup of the async client ran out of retries on 500 responses
C8_Witness ==
    \E c \in CallIds :
        /\ IsOptCall(calls[c]) /\ FinalReceived(calls[c])
        /\ calls[c].client = "async"
        /\ calls[c].sends = calls[c].max_retries + 1 /\ calls[c].sends >= 2
        /\ calls[c].resp.status = 500
        /\ calls[c].outcome.variant = "HttpResponse"

\* the async helper that serves the endpoint a blocking helper serves
AsyncCounterpart(helper) ==
    CASE helper = "get_opt_response_txid" -> "get_txid_at_block_index"
      [] helper = "get_response_str" -> "get_response_text"
      [] OTHER -> helper

\* the errors of the two transport libraries are one kind of error
Comparable(outcome) ==
    IF outcome.kind = "Err" /\ outcome.variant \in {"Minreq", "Reqwest"}
    THEN Err("Transport")
    ELSE outcome

\* C9: for every endpoint served by both clients and every final response,
\* the blocking client and the async client produce the same typed value or
\* the same error.
C9_BlockingAndAsyncAgree ==
    \A c \in CallIds :
        LET call == calls[c] IN
        (/\ call.client = "blocking" /\ call.helper \in BlockingGetHelpers
         /\ FinalReceived(call)
         /\ call.resp.status \in HttpStatuses) =>
            Comparable(call.outcome) =
                Comparable(AsyncDecode(AsyncCounterpart(call.helper), call.resp))

\* the body of a 200 response does not decode under the helper's mode
Malformed(mode, body) ==
    /\ mode \in {"binary", "hex", "json"}
    /\ IsUtf8(body) \/ mode = "binary"
    /\ ~IsOk(Decoded(mode, body))

DecodingErrors(mode) ==
    CASE mode = "binary" -> {"BitcoinEncoding"}
      [] mode = "hex" -> {"HexToBytes", "BitcoinEncoding"}
      [] mode = "json" -> {"SerdeJsonError", "Minreq", "Reqwest"}
      [] OTHER -> {}

\* C10: a 200 final response whose body is malformed for the helper's
\* decoding mode yields a decoding error value; the helper never panics and
\* never returns a value.
C10_MalformedBodyIsDecodingError ==
    \A c \in CallIds :
        LET call == calls[c] IN
        (/\ IsDecodeCall(call) /\ FinalReceived(call)
         /\ call.resp.status = 200
         /\ Malformed(DecodeMode(call), call.resp.body)) =>
            /\ call.outcome.kind = "Err"
            /\ call.outcome.variant \in DecodingErrors(DecodeMode(call))

\* the scalar a scalar-text endpoint serves
ScalarKind(call) ==
    CASE call.helper \in {"get_height", "BlockTipHeight.deserialize_str"} -> "height"
      [] call.helper \in {"get_tip_hash", "get_block_hash",
                          "BlockTipHash.deserialize_str",
                          "BlockHash.deserialize_str"} -> "hash"
      [] call.helper \in {"get_opt_response_txid", "get_txid_at_block_index",
                          "BlockTxIdAtIndex.deserialize_str"} -> "txid"
      [] OTHER -> "none"

ScalarParse(kind, text) ==
    CASE kind = "height" -> U32FromStr(text)
      [] kind = "hash" -> BlockHashFromStr(text)
      [] OTHER -> TxidFromStr(text)

\* C11: a final 200 response to a scalar-text endpoint whose text does not
\* parse as the expected scalar yields the parsing error value (Parsing for a
\* height, HexToArray for a hash or txid) and no panic, in the blocking
\* client, the async client and BlocksApi::deserialize_str.
C11_ScalarParseFailureIsAnError ==
    \A c \in CallIds :
        LET call == calls[c] IN
        (/\ call.client \in {"blocking", "async", "api"}
         /\ ScalarKind(call) # "none"
         /\ FinalReceived(call)
         /\ call.resp.status = 200 /\ IsUtf8(call.resp.body)
         /\ ~IsOk(ScalarParse(ScalarKind(call), call.resp.body))) =>
            call.outcome = Err(IF ScalarKind(call) = "height" THEN "Parsing"
                               ELSE "HexToArray")

\* C12: with a retry budget of max_retries = 0 every retry loop makes exactly
\* one transport attempt and never sleeps, whatever status the server returns:
\* at most one attempt, no sleep, and the one answered attempt is returned.
C12_ZeroBudgetOneAttemptNoSleep ==
    \A c \in CallIds :
        LET call == calls[c] IN
        (IsRetryLoopCall(call) /\ call.max_retries = 0) =>
            /\ call.sends <= 1
            /\ call.nsleeps = 0 /\ call.pc # "sleep"
            /\ (call.sends = 1 /\ ~call.failed) => Returned(call)

IsExecCall(call) == call.client \in {"sync_exec", "async_exec"}

\* the Retry-After value parses neither as an HTTP-date nor as a u64
Unparseable(value) == ParseHttpDate(value) < 0 /\ ParseU64(value) < 0

\* C13: compute_backoff(h, d) is exactly 2 * d, whatever d is, when the
\* Retry-After value h is absent or parses neither as an HTTP-date nor as an
\* unsigned integer.
C13_FallbackDoublesPreviousDelay ==
    \A c \in CallIds :
        LET call == calls[c] IN
        (/\ IsExecCall(call) /\ call.pc = "sleep"
         /\ \/ ~call.resp.retry_after.present
            \/ Unparseable(call.resp.retry_after.value)) =>
            call.last_sleep = 2 * call.prev_delay

\* an unparseable header after a retry that was given its delay by a header
C13_Witness ==
    \E c \in CallIds :
        /\ IsExecCall(calls[c]) /\ calls[c].pc = "sleep"
        /\ calls[c].resp.retry_after.present
        /\ Unparseable(calls[c].resp.retry_after.value)
        /\ calls[c].prev_delay \notin {0, BASE_BACKOFF_MS}
        /\ calls[c].last_sleep = 2 * calls[c].prev_delay

\* C14: for a Retry-After value that parses as an unsigned 64-bit integer N
\* (and not as an HTTP-date) compute_backoff gives exactly N seconds, whatever
\* the previous delay, and the conversion to milliseconds neither overflows
\* nor panics.
C14_SecondsWithoutOverflow ==
    \A c \in CallIds :
        LET call == calls[c]
            value == call.resp.retry_after.value
        IN  (/\ IsExecCall(call)
             /\ call.resp.retry_after.present
             /\ ParseHttpDate(value) < 0 /\ ParseU64(value) >= 0) =>
                /\ call.outcome.kind # "Panic"
                /\ call.pc = "sleep" => call.last_sleep = ParseU64(value) * SECOND

\* C15: under a fixed clock, compute_backoff of a Retry-After value that
\* parses as an HTTP-date is max(0, date - now): 0 for a date that is not
\* after now, date - now otherwise, whatever the previous delay is.
C15_HttpDateUnderFixedClock ==
    \A c \in CallIds :
        LET call == calls[c]
            date == ParseHttpDate(call.resp.retry_after.value)
            now == call.reads[1]
        IN  (/\ IsExecCall(call) /\ call.pc = "sleep"
             /\ call.resp.retry_after.present /\ date >= 0
             /\ call.reads[1] = call.reads[2]) =>
                call.last_sleep = IF date <= now THEN 0 ELSE date - now

\* a date in the future, on a retry whose previous delay is not the base delay
C15_Witness ==
    \E c \in CallIds :
        /\ IsExecCall(calls[c]) /\ calls[c].pc = "sleep"
        /\ calls[c].resp.retry_after.present
        /\ ParseHttpDate(calls[c].resp.retry_after.value) > calls[c].reads[1]
        /\ calls[c].reads[1] = calls[c].reads[2]
        /\ calls[c].prev_delay # BASE_BACKOFF_MS
        /\ calls[c].last_sleep > 0

\* C16: the retryable set is a parameter of each client, not a constant: a
\* call is put to sleep for a retry only on a status of the set its caller
\* configured, and a status of that set is retried while budget is left.
C16_RetrySetIsConfigured ==
    \A c \in CallIds :
        LET call == calls[c]
            status == call.resp.status % U16_MODULUS
        IN  IsRetryLoopCall(call) =>
                /\ call.pc = "sleep" => Contains(call.policy, status)
                /\ (Returned(call) /\ call.outcome.kind # "Panic"
                        /\ Contains(call.policy, status)) =>
                       call.attempts >= call.max_retries

\* C17: cancelling an async call at a suspension point stops its retry loop:
\* the cancelling step counts no retry and produces no result, and from then
\* on the call starts no attempt, sleeps no more and never gets a result.
C17_CancellationStopsTheLoop ==
    [][\A c \in CallIds :
          /\ (calls[c].pc # "cancelled" /\ calls'[c].pc = "cancelled") =>
                /\ calls'[c].attempts = calls[c].attempts
                /\ calls'[c].nsleeps = calls[c].nsleeps
                /\ calls'[c].outcome = Pending
          /\ calls[c].pc = "cancelled" =>
                /\ calls[c].outcome = Pending
                /\ calls'[c] = calls[c]]_vars

\* cancelled during a backoff sleep, with budget left for the retry
C17_Witness ==
    \E c \in CallIds :
        /\ calls[c].client \in {"async", "async_exec"}
        /\ calls[c].pc = "cancelled"
        /\ calls[c].nsleeps >= 1
        /\ calls[c].resp # NoResp
        /\ calls[c].attempts < calls[c].max_retries

\* header names compare without case
SameHeaders(a, b) ==
    { <<to_lowercase(h[1]), h[2]>> : h \in a } = { <<to_lowercase(h[1]), h[2]>> : h \in b }

\* C20: every request a client sends, GET or POST, first attempt or retry,
\* carries the headers configured on the Builder.
C20_EveryRequestCarriesTheHeaders ==
    \A c \in CallIds :
        (calls[c].client \in {"blocking", "async"} /\ calls[c].sends >= 1) =>
            SameHeaders(calls[c].req_headers, cfg.headers)

\* C19: no step of a call changes the configuration of a built client, and a
\* client is built with the fields of its Builder.
C19_ConfigurationIsImmutable ==
    [][/\ cfg.built => cfg' = cfg
       /\ (~cfg.built /\ cfg'.built) =>
             \E builder \in Builders :
                /\ cfg'.base_url = builder.base_url /\ cfg'.proxy = builder.proxy
                /\ cfg'.timeout = builder.timeout /\ cfg'.headers = builder.headers
                /\ cfg'.max_retries = builder.max_retries]_vars

\* a call that slept for a retry and finished, on a client with headers set
C19_Witness ==
    \E c \in CallIds :
        /\ cfg.built /\ cfg.headers # {} /\ cfg.max_retries >= 1
        /\ calls[c].pc = "done" /\ calls[c].nsleeps >= 1

\* C18: two calls on one client keep their retry state apart: a call starts
\* with attempts 0 and the base delay whatever other calls, running or
\* finished, have done; attempts and delay change only when the call wakes
\* from the sleep that followed its own retryable answer; and a step of one
\* call leaves the other call as it was.
C18_CallsOwnTheirRetryState ==
    [][\A c \in TwoCalls :
          /\ (calls[c].pc = "idle" /\ calls'[c].pc # "idle") =>
                /\ calls'[c].attempts = 0 /\ calls'[c].delay = BASE_BACKOFF_MILLIS
                /\ calls'[c].sends = 0 /\ calls'[c].nsleeps = 0
          /\ (/\ calls[c].pc # "idle" /\ calls'[c].pc # "idle"
              /\ \/ calls'[c].attempts # calls[c].attempts
                 \/ calls'[c].delay # calls[c].delay) =>
                /\ calls[c].pc = "sleep"
                /\ Contains(calls[c].codes, calls[c].resp.status)
                /\ calls'[c].attempts = calls[c].attempts + 1
                /\ calls'[c].delay = 2 * calls[c].delay
          /\ calls'[c] # calls[c] =>
                \A d \in TwoCalls \ {c} : calls'[d] = calls[d]]_vars

\* one call at its start, nothing sent yet, while the other call sleeps
\* before its second or later retry
C18_Witness ==
    \E c, d \in TwoCalls :
        /\ c # d
        /\ calls[c].pc = "send" /\ calls[c].attempts = 0 /\ calls[c].sends = 0
        /\ calls[d].pc = "sleep" /\ calls[d].attempts >= 1
        /\ calls[d].delay > BASE_BACKOFF_MILLIS

\* C21: convert_fee_rate returns the estimate, as an f32, stored under the
\* greatest key that is at most target, and None when no key is at most target.
C21_GreatestKeyAtOrBelowTarget ==
    \A c \in CallIds :
        LET call == calls[c] IN
        (call.helper = "convert_fee_rate" /\ call.pc = "done") =>
            /\ (\A k \in DOMAIN call.estimates : k > call.target) =>
                   call.outcome = NoneResult
            /\ \A k \in DOMAIN call.estimates :
                   (/\ k <= call.target
                    /\ \A j \in DOMAIN call.estimates : ~(k < j /\ j <= call.target)) =>
                       call.outcome = SomeOf(AsF32(call.estimates[k]))

\* a key equal to target with a smaller key beside it, and an estimate that
\* an f32 does not hold exactly
C21_Witness ==
    \E c \in CallIds :
        /\ calls[c].helper = "convert_fee_rate" /\ calls[c].pc = "done"
        /\ calls[c].target \in DOMAIN calls[c].estimates
        /\ \E j \in DOMAIN calls[c].estimates : j < calls[c].target
        /\ calls[c].outcome.kind = "Some"
        /\ calls[c].outcome.payload # <<"f32", calls[c].estimates[calls[c].target]>>

\* a broadcast call: BlockingClient::broadcast, or AsyncClient::broadcast,
\* which is post_request_hex("/tx", transaction)
IsBroadcastCall(call) ==
    \/ call.client = "blocking" /\ call.helper = "broadcast"
    \/ call.client = "async" /\ call.helper = "post_request_hex"

\* C22: a broadcast that succeeds returns the txid of the transaction, the
\* one the server answered with, in the blocking and in the async client.
C22_BroadcastReturnsTheTxid ==
    \A c \in CallIds :
        (IsBroadcastCall(calls[c]) /\ calls[c].pc = "done" /\ IsOk(calls[c].outcome)) =>
            /\ calls[c].resp.body = <<"hex", "id">>
            /\ calls[c].outcome = Ok(<<"txid", "id">>)

\* what get_tx returns for the final response of a get_tx_no_opt call
GetTxOf(call) ==
    IF call.client = "blocking" THEN blocking_get_tx(call.resp)
    ELSE async_get_tx(call.resp)

\* C23: get_tx_no_opt returns Err(TransactionNotFound(txid)), with the txid
\* asked for, exactly when get_tx returns Ok(None), which is on a final 404
\* (a response received in full); it returns the transaction when get_tx
\* returns it, and any other error of get_tx unchanged, in both clients.
C23_NoOptMapsNoneToNotFound ==
    \A c \in CallIds :
        LET call == calls[c]
            got == GetTxOf(call)
        IN  (/\ call.client \in {"blocking", "async"}
             /\ call.helper = "get_tx_no_opt" /\ call.pc = "done") =>
                IF call.resp = NoResp
                THEN call.outcome.kind = "Err"
                     /\ call.outcome.variant \in {"Minreq", "Reqwest"}
                ELSE /\ (call.outcome = TransactionNotFound(RequestedTxid))
                            <=> (got = NoneResult)
                     /\ got = NoneResult => call.resp.status = 404
                     /\ (call.resp.status = 404 /\ BodyReceived(call.resp.body)) =>
                            got = NoneResult
                     /\ got.kind = "Some" =>
                            call.outcome = Ok(<<"value", "obj">>)
                     /\ got.kind \notin {"Some", "None"} => call.outcome = got
                     /\ call.outcome.variant = "TransactionNotFound" =>
                            call.outcome.payload = RequestedTxid

\* a get_tx_no_opt that ended on an error of get_tx other than the absence
C23_Witness ==
    \E c \in CallIds :
        /\ calls[c].helper = "get_tx_no_opt" /\ calls[c].pc = "done"
        /\ calls[c].resp # NoResp
        /\ calls[c].outcome.kind = "Err"
        /\ calls[c].outcome.variant \in {"HttpResponse", "BitcoinEncoding"}

\* C30: get_blocks never returns Ok with an empty list: a final 200 whose
\* JSON is an empty array yields Err(InvalidResponse), in both clients.
C30_GetBlocksNeverOkEmpty ==
    \A c \in CallIds :
        LET call == calls[c] IN
        (/\ call.client \in {"blocking", "async"}
         /\ call.helper = "get_blocks" /\ call.pc = "done") =>
            /\ IsOk(call.outcome) => ~is_empty(call.outcome.payload)
            /\ (~call.failed /\ call.resp.status = 200
                    /\ call.resp.body = <<"json", "[]">>) =>
                   call.outcome = Err("InvalidResponse")

\* the delay a retry loop starts from
BaseDelay(call) ==
    IF IsExecCall(call) THEN BASE_BACKOFF_MS ELSE BASE_BACKOFF_MILLIS

RECURSIVE Pow2(_)
Pow2(k) == IF k = 0 THEN 1 ELSE 2 * Pow2(k - 1)

\* C24: in a call whose answers carry no Retry-After header the delay is
\* doubled before the call sleeps: the sleep before the k-th retry lasts
\* base_delay * 2^k, in get_with_retry of both clients and in exec_with_retry.
C24_DelayDoubledBeforeSleep ==
    \A c \in CallIds :
        LET call == calls[c] IN
        (IsRetryLoopCall(call) /\ call.pc = "sleep" /\ call.no_retry_after) =>
            call.last_sleep = BaseDelay(call) * Pow2(call.nsleeps)

\* C28: in exec_with_retry the delay slept before a retry that a response
\* without Retry-After header triggered is greater than zero, whatever the
\* earlier responses of the call carried.
C28_FallbackDelayIsPositive ==
    \A c \in CallIds :
        LET call == calls[c] IN
        (IsExecCall(call) /\ call.pc = "sleep"
            /\ ~call.resp.retry_after.present) =>
            call.last_sleep > 0

\* C25: a final response that reached the decoder ends the call: the step
\* out of the decoder counts no attempt and no sleep, a 200 body that fails
\* to decode gives the caller an error value, and a call that is over takes
\* no further step.
C25_DecodeFailureIsTerminal ==
    [][\A c \in CallIds :
          /\ (calls[c].pc = "decode" /\ calls'[c] # calls[c]) =>
                /\ calls'[c].pc \in {"done", "cancelled"}
                /\ calls'[c].sends = calls[c].sends
                /\ calls'[c].nsleeps = calls[c].nsleeps
                /\ (calls'[c].pc = "done" /\ calls[c].resp.status = 200) =>
                       calls'[c].outcome.kind \in {"Ok", "Some", "Err"}
          /\ calls[c].pc = "done" => calls'[c] = calls[c]]_vars

\* C26: a broadcast makes one transport attempt and never sleeps, whatever
\* status the server answers with: an answered broadcast has made exactly one
\* attempt and is past its loop (returned, or cancelled by its caller).
C26_BroadcastIsNeverRetried ==
    \A c \in CallIds :
        LET call == calls[c] IN
        IsBroadcastCall(call) =>
            /\ call.sends <= 1
            /\ call.nsleeps = 0 /\ call.pc # "sleep" /\ call.attempts = 0
            /\ call.resp # NoResp =>
                   (call.sends = 1 /\ call.pc \in {"decode", "done", "cancelled"})

\* a broadcast answered with a retryable status on a client with retries left
C26_Witness ==
    \E c \in CallIds :
        /\ IsBroadcastCall(calls[c]) /\ calls[c].pc = "done"
        /\ calls[c].resp.status \in {429, 500, 503}
        /\ cfg.max_retries >= 1
        /\ calls[c].outcome.kind = "Err"

\* the call is over and ended on a response it received
EndedOnResponse(call) ==
    call.pc = "done" /\ ~call.failed /\ call.resp # NoResp

\* C27: the result of a GET call depends on its last response only: two runs
\* of the same call on the same client whose final responses have the same
\* status and body return the same result, whatever was retried before.
C27_ResultDependsOnFinalResponseOnly ==
    \A c, d \in DOMAIN calls :
        (/\ EndedOnResponse(calls[c]) /\ EndedOnResponse(calls[d])
         /\ calls[c].client = calls[d].client
         /\ calls[c].helper = calls[d].helper
         /\ calls[c].resp.status = calls[d].resp.status
         /\ calls[c].resp.body = calls[d].resp.body) =>
            calls[c].outcome = calls[d].outcome

\* two runs with the same final response, one without and one with retries
C27_Witness ==
    \E c, d \in DOMAIN calls :
        /\ EndedOnResponse(calls[c]) /\ EndedOnResponse(calls[d])
        /\ calls[c].client = calls[d].client
        /\ calls[c].resp = calls[d].resp
        /\ calls[c].nsleeps = 0 /\ calls[d].nsleeps >= 1
        /\ calls[c].outcome = calls[d].outcome

\* C29: for a Retry-After value that parses as an HTTP-date compute_backoff
\* never falls back to doubling, also when the clock advances between its two
\* reads of the current time: the result is 0 or the distance from one of
\* the instants read to the date.
C29_HttpDateNeverFallsBack ==
    \A c \in CallIds :
        LET call == calls[c]
            date == ParseHttpDate(call.resp.retry_after.value)
        IN  (/\ IsExecCall(call) /\ call.pc = "sleep"
             /\ call.resp.retry_after.present /\ date >= 0) =>
                \/ call.last_sleep = 0
                \/ \E i \in 1..2 :
                      /\ call.reads[i] <= date
                      /\ call.last_sleep = date - call.reads[i]

====
